---- MODULE Spec2Model ----
(***************************************************************************)
(* A model of the roygbiv timeline editor: the select-box behaviour, the   *)
(* hit tests over the drawn-rect list, the drag callback and the mode /    *)
(* enabled map of the App component.                                       *)
(*                                                                         *)
(* Screen coordinates are integers (pixels).  A value divided by the zoom  *)
(* is kept as a fraction [num, den] until Math.round is applied to it.     *)
(***************************************************************************)
EXTENDS Integers, Sequences, FiniteSets, TLC

VARIABLES
    events,          \* App state: the list of events (Roygbiv.js:106)
    selection,       \* App state: the set of selected ids (Roygbiv.js:149)
    mode,            \* App state: the mode setting (Roygbiv.js:150)
    viewportState,   \* App state: offset and zoom (Roygbiv.js:182)
    renderedRects,   \* renderedRectsRef.current (Roygbiv.js:148)
    dirty,           \* a render is pending (the deps of the render effect changed)
    enabled,         \* the enabled map handed to the controller (Roygbiv.js:291)
    dragEvent,       \* the DragEventBehavior instance
    selectBox,       \* the SelectBoxBehavior instance (part_000:249)
    selectionBox,    \* what the select box element shows: Null or a Rect
    listeners,       \* the canvases that carry the select-box listeners
    tooltip,         \* what the tooltip element shows: Null or [event, pos]
    controller,      \* the BehaviorController under construction: registry and error
    last,            \* history: the last step, its pointer position, its onSelectRect calls
    hist             \* history: the phase of the select gesture, its anchor and last point

vars == <<events, selection, mode, viewportState, renderedRects, dirty, enabled,
          dragEvent, selectBox, selectionBox, listeners, tooltip, controller, last, hist>>

appVars == <<events, selection, mode, viewportState, renderedRects, dirty, enabled,
             dragEvent, controller>>

-----------------------------------------------------------------------------
(* Program constants *)

TIMELINE_ROW_HEIGHT == 20
QUARTER_NOTE_WIDTH == 10
MIN_ZOOM_SCALE == 1
NumScaleDegrees == 7

(* Bounds of the model *)

\* a drag keeps every event at a start of at most MaxStart and a degree of at most
\* MaxDegree, and at most MaxBack before its initial start and degree
MaxStart == 7
MaxDegree == 7
MaxBack == 0
\* the moves of one drag gesture are counted up to MaxMoves
MaxMoves == 2
\* the zoom values the hit-test inputs are drawn from: 1..MaxZoom
MaxZoom == 2
\* the viewport behaviours are followed up to this zoom and this distance of the
\* offset from the origin
MaxViewZoom == 12
\* the quantizers are applied to the quarters up to MaxQuarters / 4
MaxQuarters == 16
\* the addBehavior calls are followed up to MaxBehaviors registered behaviours
MaxBehaviors == 3
\* the events getExtents is applied to are dragged up to MaxUp rows above row 0
MaxUp == 2
MaxOffset == 4

\* the pointer positions of the mouse events: on event 1, below it in row 5,
\* 2 pixels and 20 pixels to the right of that
Points == {[x |-> 49, y |-> 70], [x |-> 45, y |-> 110],
           [x |-> 47, y |-> 110], [x |-> 65, y |-> 110]}

\* the input surfaces: the canvas and its replacement
Canvases == {"c1", "c2"}

Modes == {"select", "pan", "hand"}

-----------------------------------------------------------------------------
(* Values *)

\* JavaScript's null, for a field that otherwise holds an object
Null == [null |-> TRUE]

\* no canvas (this.canvas = null in the select-box behaviour)
NoCanvas == "none"

Vector2(px, py) == [x |-> px, y |-> py]

Rect(pos, sz) == [position |-> pos, size |-> sz]

Min(a, b) == IF a <= b THEN a ELSE b

Max(a, b) == IF a >= b THEN a ELSE b

Abs(a) == IF a < 0 THEN -a ELSE a

\* a fraction num/den with den > 0
Frac(n, d) == [num |-> n, den |-> d]

\* Math.round of a fraction: the nearest integer, halves towards +infinity
MathRound(f) == (2 * f.num + f.den) \div (2 * f.den)

-----------------------------------------------------------------------------
(* Geometry primitives (Rect, Vector2) *)

\* Rect.containsPoint: half-open, a point on the far edge is outside
containsPoint(rect, p) ==
    /\ p.x >= rect.position.x
    /\ p.x < rect.position.x + rect.size.x
    /\ p.y >= rect.position.y
    /\ p.y < rect.position.y + rect.size.y

\* Rect.intersectsRect: axis-aligned overlap, rects sharing only an edge do not intersect
intersectsRect(a, b) ==
    /\ a.position.x < b.position.x + b.size.x
    /\ a.position.x + a.size.x > b.position.x
    /\ a.position.y < b.position.y + b.size.y
    /\ a.position.y + a.size.y > b.position.y

\* selection.getSelectionBox: the axis-aligned rectangle between two points
getSelectionBox(start, end) ==
    Rect(Vector2(Min(start.x, end.x), Min(start.y, end.y)),
         Vector2(Abs(end.x - start.x), Abs(end.y - start.y)))

-----------------------------------------------------------------------------
(* Hit tests over the drawn-rect list *)

\* the loop of getIntersectingEvent, from index i down to 1
RECURSIVE getIntersectingEventFrom(_, _, _)
getIntersectingEventFrom(point, drawnElements, i) ==
    IF i < 1 THEN Null
    ELSE IF containsPoint(drawnElements[i].rect, point)
         THEN drawnElements[i].object
         ELSE getIntersectingEventFrom(point, drawnElements, i - 1)

\* a variant that visits the list front to back
RECURSIVE getIntersectingEventForward(_, _, _)
getIntersectingEventForward(point, drawnElements, i) ==
    IF i > Len(drawnElements) THEN Null
    ELSE IF containsPoint(drawnElements[i].rect, point)
         THEN drawnElements[i].object
         ELSE getIntersectingEventForward(point, drawnElements, i + 1)

getIntersectingEvent_FirstDrawn(point, drawnElements) ==
    getIntersectingEventForward(point, drawnElements, 1)

getIntersectingEvent(point, drawnElements) ==
    getIntersectingEventFrom(point, drawnElements, Len(drawnElements))

\* the loop of findIntersectingEvents, from index i down to 1
RECURSIVE findIntersectingEventsFrom(_, _, _)
findIntersectingEventsFrom(rect, drawnElements, i) ==
    IF i < 1 THEN << >>
    ELSE (IF intersectsRect(drawnElements[i].rect, rect)
          THEN << drawnElements[i].object >>
          ELSE << >>)
         \o findIntersectingEventsFrom(rect, drawnElements, i - 1)

\* a variant that stops at the first hit, as the point hit test does
findIntersectingEvents_BreakOnHit(rect, drawnElements) ==
    LET all == findIntersectingEventsFrom(rect, drawnElements, Len(drawnElements))
    IN  IF all = << >> THEN << >> ELSE << all[1] >>

\* a variant that tests the rectangle's corner, as the point hit test does
findIntersectingEvents_CornerOnly(rect, drawnElements) ==
    LET hit(el) == containsPoint(el.rect, rect.position)
        els == SelectSeq(drawnElements, hit)
    IN  [k \in 1..Len(els) |-> els[Len(els) + 1 - k].object]

findIntersectingEvents(rect, drawnElements) ==
    findIntersectingEventsFrom(rect, drawnElements, Len(drawnElements))

-----------------------------------------------------------------------------
(* Quantized scale mapper (utils.scaleDiscreteQuantized) and its two uses *)

\* a variant of quantizerY that snaps to every second scale degree
quantizerY_StepTwo ==
    [domain |-> << 0, (NumScaleDegrees - 1) * TIMELINE_ROW_HEIGHT >>,
     range |-> << 0, NumScaleDegrees - 1 >>,
     stepSize |-> 2]

\* pixels (unzoomed) <-> scale degrees
quantizerY ==
    [domain |-> << 0, (NumScaleDegrees - 1) * TIMELINE_ROW_HEIGHT >>,
     range |-> << 0, NumScaleDegrees - 1 >>,
     stepSize |-> 1]

\* pixels (unzoomed) <-> quarter notes
quantizerX ==
    [domain |-> << 0, QUARTER_NOTE_WIDTH >>,
     range |-> << 0, 1 >>,
     stepSize |-> 1]

\* to(range alias, f): the linear map of the fraction f, snapped by Math.round
\* to a multiple of stepSize
toRange(q, f) ==
    LET dw == q.domain[2] - q.domain[1]
        rw == q.range[2] - q.range[1]
        num == (f.num - q.domain[1] * f.den) * rw + q.range[1] * dw * f.den
        den == f.den * dw * q.stepSize
    IN  MathRound(Frac(num, den)) * q.stepSize

\* to(domain alias, v): the inverse linear map, not snapped
toDomain(q, v) ==
    LET dw == q.domain[2] - q.domain[1]
        rw == q.range[2] - q.range[1]
    IN  ((v - q.range[1]) * dw) \div rw + q.domain[1]

-----------------------------------------------------------------------------
(* Viewport (viewport.useViewport) *)

\* (worldPoint - offset) * zoom, componentwise
positionToScreen(vs, p) ==
    Vector2((p.x - vs.offset.x) * vs.zoom.x, (p.y - vs.offset.y) * vs.zoom.y)

\* worldSize * zoom
sizeToScreen(vs, sz) == Vector2(sz.x * vs.zoom.x, sz.y * vs.zoom.y)

sizeXFromScreen(vs, dx) == Frac(dx, vs.zoom.x)

sizeYFromScreen(vs, dy) == Frac(dy, vs.zoom.y)

-----------------------------------------------------------------------------
(* The App component (Roygbiv.js) *)

initialEvents ==
    << [id |-> 0, degree |-> 0, start |-> 0, duration |-> 1],
       [id |-> 1, degree |-> 3, start |-> 4, duration |-> 1],
       [id |-> 2, degree |-> 5, start |-> 5, duration |-> 2],
       [id |-> 3, degree |-> 6, start |-> 6, duration |-> 3] >>

\* a variant of the render effect that leaves the size of the rectangle in world pixels
eventRect_SizeUnzoomed(vs, ev) ==
    Rect(positionToScreen(vs, Vector2(toDomain(quantizerX, ev.start),
                                      toDomain(quantizerY, ev.degree))),
         Vector2(toDomain(quantizerX, ev.duration), toDomain(quantizerY, 1)))

\* the screen rectangle the render effect draws for one event
eventRect(vs, ev) ==
    Rect(positionToScreen(vs, Vector2(toDomain(quantizerX, ev.start),
                                      toDomain(quantizerY, ev.degree))),
         sizeToScreen(vs, Vector2(toDomain(quantizerX, ev.duration),
                                  toDomain(quantizerY, 1))))

\* a variant of the render effect that adds each entry at the front of the list
renderRects_Unshift(evs, vs) ==
    [i \in 1..Len(evs) |-> [rect |-> eventRect(vs, evs[Len(evs) + 1 - i]),
                            object |-> evs[Len(evs) + 1 - i]]]

\* the render effect: the list is emptied, then one entry is pushed per event
renderRects(evs, vs) ==
    [i \in 1..Len(evs) |-> [rect |-> eventRect(vs, evs[i]), object |-> evs[i]]]

\* draggedEventsMap.has(id) / .get(id): the last entry with that id wins, as in new Map
draggedHas(draggedEvents, id) ==
    \E i \in 1..Len(draggedEvents) : draggedEvents[i].id = id

draggedGet(draggedEvents, id) ==
    LET is == {i \in 1..Len(draggedEvents) : draggedEvents[i].id = id}
    IN  draggedEvents[CHOOSE i \in is : \A j \in is : j <= i]

\* a variant of onDragMove that adds the delta to the live event
onDragMove_Live(evs, draggedEvents, pos, vs) ==
    LET deltaX == pos.to.x - pos.from.x
        deltaY == pos.to.y - pos.from.y
    IN  [i \in 1..Len(evs) |->
            IF draggedHas(draggedEvents, evs[i].id)
            THEN [evs[i] EXCEPT
                    !.start = evs[i].start
                              + toRange(quantizerX, sizeXFromScreen(vs, deltaX)),
                    !.degree = evs[i].degree
                               + toRange(quantizerY, sizeYFromScreen(vs, deltaY))]
            ELSE evs[i]]

\* a variant of onDragMove that updates the degree only
onDragMove_DegreeOnly(evs, draggedEvents, pos, vs) ==
    LET deltaY == pos.to.y - pos.from.y
    IN  [i \in 1..Len(evs) |->
            IF draggedHas(draggedEvents, evs[i].id)
            THEN [evs[i] EXCEPT
                    !.degree = draggedGet(draggedEvents, evs[i].id).degree
                               + toRange(quantizerY, sizeYFromScreen(vs, deltaY))]
            ELSE evs[i]]

\* a variant of onDragMove whose map of the dragged events is keyed by their index
\* in draggedEvents, not by their id
onDragMove_KeyedByIndex(evs, draggedEvents, pos, vs) ==
    LET deltaX == pos.to.x - pos.from.x
        deltaY == pos.to.y - pos.from.y
    IN  [i \in 1..Len(evs) |->
            IF evs[i].id + 1 \in 1..Len(draggedEvents)
            THEN [evs[i] EXCEPT
                    !.start = draggedEvents[evs[i].id + 1].start
                              + toRange(quantizerX, sizeXFromScreen(vs, deltaX)),
                    !.degree = draggedEvents[evs[i].id + 1].degree
                               + toRange(quantizerY, sizeYFromScreen(vs, deltaY))]
            ELSE evs[i]]

\* onDragMove(draggedEvents, pos): the updater handed to setEvents, applied to evs
onDragMove(evs, draggedEvents, pos, vs) ==
    LET deltaX == pos.to.x - pos.from.x
        deltaY == pos.to.y - pos.from.y
    IN  [i \in 1..Len(evs) |->
            IF draggedHas(draggedEvents, evs[i].id)
            THEN [evs[i] EXCEPT
                    !.start = draggedGet(draggedEvents, evs[i].id).start
                              + toRange(quantizerX, sizeXFromScreen(vs, deltaX)),
                    !.degree = draggedGet(draggedEvents, evs[i].id).degree
                               + toRange(quantizerY, sizeYFromScreen(vs, deltaY))]
            ELSE evs[i]]

\* onSelectRect(selectBoxRect): the new selection, new Set(intersecting.map(ev => ev.id))
onSelectRect(selectBoxRect, rects) ==
    LET intersecting == findIntersectingEvents(selectBoxRect, rects)
    IN  {intersecting[k].id : k \in 1..Len(intersecting)}

\* getEventAtPos(pos)
getEventAtPos(pos, rects) == getIntersectingEvent(pos, rects)

\* a variant of the enabled map whose wheelScroll test names the wrong mode
enabledMap_ScrollNotSelect(m) ==
    [dragPan |-> m = "pan",
     wheelZoom |-> m = "pan",
     wheelScroll |-> m # "select",
     selection |-> m = "select",
     dragEvent |-> m = "select"]

\* the enabled map handed to useBehaviors
enabledMap(m) ==
    [dragPan |-> m = "pan",
     wheelZoom |-> m = "pan",
     wheelScroll |-> m # "pan",
     selection |-> m = "select",
     dragEvent |-> m = "select"]

\* the controller built in useBehaviors: name and priority, in registration order
registrations_Swapped ==
    << [name |-> "dragPan", priority |-> 1],
       [name |-> "wheelZoom", priority |-> 1],
       [name |-> "wheelScroll", priority |-> 1],
       [name |-> "dragEvent", priority |-> 1],
       [name |-> "selection", priority |-> 2],
       [name |-> "tooltip", priority |-> 1] >>

\* a variant of the factory that registers the tooltip under the name of the
\* select-box behaviour
registrations_NameReused ==
    << [name |-> "dragPan", priority |-> 1],
       [name |-> "wheelZoom", priority |-> 1],
       [name |-> "wheelScroll", priority |-> 1],
       [name |-> "dragEvent", priority |-> 2],
       [name |-> "selection", priority |-> 1],
       [name |-> "selection", priority |-> 1] >>

registrations ==
    << [name |-> "dragPan", priority |-> 1],
       [name |-> "wheelZoom", priority |-> 1],
       [name |-> "wheelScroll", priority |-> 1],
       [name |-> "dragEvent", priority |-> 2],
       [name |-> "selection", priority |-> 1],
       [name |-> "tooltip", priority |-> 1] >>

-----------------------------------------------------------------------------
(* BehaviorController: the registry of behaviours (./behavior) *)

NoError == "none"

ConfigurationError == "ConfigurationError"

\* new BehaviorController(): nothing registered; error is how the last call ended
newController == [registry |-> << >>, error |-> NoError]

isRegistered(registry, name) == \E i \in 1..Len(registry) : registry[i].name = name

\* addBehavior(name, behaviorFactory, priority): fails when name is registered
addBehavior(c, name, priority) ==
    IF isRegistered(c.registry, name)
    THEN [registry |-> c.registry, error |-> ConfigurationError]
    ELSE [registry |-> Append(c.registry, [name |-> name, priority |-> priority]),
          error |-> NoError]

\* the calls of the factory handed to useBehaviors, from the i-th on; a call that
\* fails ends the factory
RECURSIVE addBehaviorsFrom(_, _, _)
addBehaviorsFrom(regs, i, c) ==
    IF i > Len(regs) \/ c.error # NoError THEN c
    ELSE addBehaviorsFrom(regs, i + 1, addBehavior(c, regs[i].name, regs[i].priority))

\* the controller the factory returns
builtController == addBehaviorsFrom(registrations, 1, newController)

-----------------------------------------------------------------------------
(* SelectBoxBehavior (part_000).  Each handler maps the instance sb and the *)
(* select box element to their values after the call, with the rectangles  *)
(* it passed to onSelectRect.                                               *)

Outcome(sb, box, calls) == [sb |-> sb, box |-> box, calls |-> calls]

\* a variant of setEnabled that also ends the gesture
setEnabled_Abort(sb, box, value) ==
    IF sb.enabled = value THEN Outcome(sb, box, << >>)
    ELSE IF ~value
         THEN Outcome([sb EXCEPT !.enabled = value, !.selecting = FALSE], Null, << >>)
         ELSE Outcome([sb EXCEPT !.enabled = value], box, << >>)

setEnabled(sb, box, value) ==
    IF sb.enabled = value THEN Outcome(sb, box, << >>)
    ELSE IF ~value
         THEN Outcome([sb EXCEPT !.enabled = value], Null, << >>)
         ELSE Outcome([sb EXCEPT !.enabled = value], box, << >>)

\* a variant of onMouseDown that leaves selectionEnd where the last gesture ended
onMouseDown_KeepEnd(sb, box, pos) ==
    IF ~sb.enabled THEN Outcome(sb, box, << >>)
    ELSE Outcome([sb EXCEPT !.selecting = TRUE, !.selectionStart = pos], box, << >>)

onMouseDown(sb, box, pos) ==
    IF ~sb.enabled THEN Outcome(sb, box, << >>)
    ELSE Outcome([sb EXCEPT !.selecting = TRUE,
                            !.selectionStart = pos,
                            !.selectionEnd = pos],
                 box, << >>)

onMouseUp(sb, box) ==
    IF ~sb.enabled THEN Outcome(sb, box, << >>)
    ELSE Outcome([sb EXCEPT !.selecting = FALSE], Null,
                 << getSelectionBox(sb.selectionStart, sb.selectionEnd) >>)

onMouseOut(sb, box) ==
    IF ~sb.enabled THEN Outcome(sb, box, << >>)
    ELSE Outcome([sb EXCEPT !.selecting = FALSE], Null, << >>)

onMouseMove(sb, box, pos) ==
    IF ~sb.selecting THEN Outcome(sb, box, << >>)
    ELSE Outcome([sb EXCEPT !.selectionEnd = pos],
                 getSelectionBox(sb.selectionStart, pos), << >>)

\* bind(canvas): the instance and the canvases that carry its listeners
bind(sb, ls, canvas) ==
    [sb |-> [sb EXCEPT !.canvas = canvas], listeners |-> ls \cup {canvas}]

unbind(sb, ls) ==
    IF sb.canvas = NoCanvas THEN [sb |-> sb, listeners |-> ls]
    ELSE [sb |-> [sb EXCEPT !.canvas = NoCanvas], listeners |-> ls \ {sb.canvas}]

\* a new SelectBoxBehavior after the mount effect setEnabled(mode === 'select')
newSelectBox ==
    [enabled |-> TRUE,
     selecting |-> FALSE,
     selectionStart |-> Vector2(0, 0),
     selectionEnd |-> Vector2(0, 0),
     canvas |-> NoCanvas]

-----------------------------------------------------------------------------
(* Tooltip.onMouseMove (part_000): what the tooltip element shows *)

tooltipOnMouseMove(mousePos, rects) ==
    LET intersecting == getEventAtPos(mousePos, rects)
    IN  IF intersecting = Null THEN Null
        ELSE [event |-> intersecting, pos |-> mousePos]

-----------------------------------------------------------------------------
(* Initial values shared by the specifications *)

defaultViewportState == [offset |-> Vector2(0, 0),
                         zoom |-> Vector2(MIN_ZOOM_SCALE, MIN_ZOOM_SCALE)]

\* a DragEventBehavior that is not dragging; "to" is the last point it was moved to
\* and "moves" the number of moves of the gesture so far
newDragEvent ==
    [enabled |-> TRUE, dragging |-> FALSE, from |-> Vector2(0, 0),
     to |-> Vector2(0, 0), moves |-> 0, draggedEvents |-> << >>]

\* a step: its name, its pointer position, the rectangles it passed to onSelectRect
\* and the behaviours the controller delivered it to, in order
StepVia(op, pos, calls, delivered) ==
    [op |-> op, pos |-> pos, calls |-> calls, delivered |-> delivered]

Step(op, pos, calls) == StepVia(op, pos, calls, << >>)

noHist == [phase |-> "idle", prev |-> "idle",
           anchor |-> Vector2(0, 0), lastPos |-> Vector2(0, 0)]

\* the history after a step that takes the select gesture to phase ph
histTo(ph) == [hist EXCEPT !.phase = ph, !.prev = hist.phase]

\* the render effect (Roygbiv.js): rebuilds the hit-test list
Render ==
    /\ dirty
    /\ renderedRects' = renderRects(events, viewportState)
    /\ dirty' = FALSE
    /\ last' = Step("render", last.pos, << >>)
    /\ hist' = [hist EXCEPT !.prev = hist.phase]
    /\ UNCHANGED <<controller, events, selection, mode, viewportState, enabled, dragEvent,
                   selectBox, selectionBox, listeners, tooltip>>

\* the App's onSelectRect applied to every rectangle of calls, in order
RECURSIVE applySelectCalls(_, _, _)
applySelectCalls(sel, calls, rects) ==
    IF calls = << >> THEN sel
    ELSE applySelectCalls(onSelectRect(Head(calls), rects), Tail(calls), rects)

-----------------------------------------------------------------------------
(* The select-box behaviour of SelectMode, bound to a canvas (part_000) *)

InitSelectBox ==
    /\ events = initialEvents
    /\ selection = {}
    /\ mode = "select"
    /\ viewportState = defaultViewportState
    /\ renderedRects = renderRects(initialEvents, defaultViewportState)
    /\ dirty = FALSE
    /\ enabled = enabledMap("select")
    /\ dragEvent = newDragEvent
    /\ selectBox = newSelectBox
    /\ selectionBox = Null
    /\ listeners = {}
    /\ tooltip = Null
    /\ controller = builtController
    /\ last = Step("init", Vector2(0, 0), << >>)
    /\ hist = noHist

\* what a handler's outcome does to the behaviour, the box and the selection
SelectBoxBecomes(out) ==
    /\ selectBox' = out.sb
    /\ selectionBox' = out.box
    /\ selection' = applySelectCalls(selection, out.calls, renderedRects)
    /\ dirty' = (dirty \/ out.calls # << >>)
    /\ UNCHANGED <<controller, events, mode, viewportState, renderedRects, enabled, dragEvent,
                   tooltip>>

\* the effect of SelectMode on its enabled prop
SetEnabled(value) ==
    /\ SelectBoxBecomes(setEnabled(selectBox, selectionBox, value))
    /\ UNCHANGED listeners
    /\ last' = Step("setEnabled", last.pos, << >>)
    /\ hist' = IF hist.phase = "gesture" /\ selectBox.enabled /\ ~value
               THEN histTo("disabled")
               ELSE IF selectBox.enabled = value THEN histTo(hist.phase)
               ELSE histTo("idle")

\* the effect of SelectMode on its canvas prop: a canvas appears
Bind(canvas) ==
    /\ selectBox.canvas = NoCanvas
    /\ selectBox' = bind(selectBox, listeners, canvas).sb
    /\ listeners' = bind(selectBox, listeners, canvas).listeners
    /\ last' = Step("bind", last.pos, << >>)
    /\ hist' = histTo("idle")
    /\ UNCHANGED <<appVars, selectionBox, tooltip>>

\* the cleanup of that effect: the canvas is removed or replaced
Unbind ==
    /\ selectBox.canvas # NoCanvas
    /\ selectBox' = unbind(selectBox, listeners).sb
    /\ listeners' = unbind(selectBox, listeners).listeners
    /\ last' = Step("unbind", last.pos, << >>)
    /\ hist' = histTo("idle")
    /\ UNCHANGED <<appVars, selectionBox, tooltip>>

CanvasMouseDown(canvas, pos) ==
    /\ canvas \in listeners
    /\ SelectBoxBecomes(onMouseDown(selectBox, selectionBox, pos))
    /\ UNCHANGED listeners
    /\ last' = Step("mousedown", pos, << >>)
    /\ hist' = IF selectBox.enabled
               THEN [phase |-> "gesture", prev |-> hist.phase,
                     anchor |-> pos, lastPos |-> pos]
               ELSE histTo("idle")

CanvasMouseMove(canvas, pos) ==
    /\ canvas \in listeners
    /\ SelectBoxBecomes(onMouseMove(selectBox, selectionBox, pos))
    /\ UNCHANGED listeners
    /\ last' = Step("mousemove", pos, << >>)
    /\ hist' = IF hist.phase = "gesture"
               THEN [hist EXCEPT !.prev = hist.phase, !.lastPos = pos]
               ELSE histTo(hist.phase)

CanvasMouseUp(canvas) ==
    /\ canvas \in listeners
    /\ SelectBoxBecomes(onMouseUp(selectBox, selectionBox))
    /\ UNCHANGED listeners
    /\ last' = Step("mouseup", last.pos, onMouseUp(selectBox, selectionBox).calls)
    /\ hist' = histTo("idle")

CanvasMouseOut(canvas) ==
    /\ canvas \in listeners
    /\ SelectBoxBecomes(onMouseOut(selectBox, selectionBox))
    /\ UNCHANGED listeners
    /\ last' = Step("mouseout", last.pos, << >>)
    /\ hist' = IF selectBox.enabled /\ selectBox.selecting /\ hist.phase = "gesture"
               THEN histTo("out")
               ELSE histTo("idle")

NextSelectBox ==
    \/ \E value \in BOOLEAN : SetEnabled(value)
    \/ \E canvas \in Canvases : Bind(canvas)
    \/ Unbind
    \/ \E canvas \in Canvases, pos \in Points : CanvasMouseDown(canvas, pos)
    \/ \E canvas \in Canvases, pos \in Points : CanvasMouseMove(canvas, pos)
    \/ \E canvas \in Canvases : CanvasMouseUp(canvas)
    \/ \E canvas \in Canvases : CanvasMouseOut(canvas)
    \/ Render

SpecSelectBox == InitSelectBox /\ [][NextSelectBox]_vars

-----------------------------------------------------------------------------
(* BehaviorController and DragEventBehavior, as the App uses them.  The     *)
(* dispatch reaches the drag and the select-box behaviour; the handlers of *)
(* dragPan, wheelZoom, wheelScroll and tooltip are not part of it.         *)

maxPriority(regs) ==
    CHOOSE p \in {regs[i].priority : i \in 1..Len(regs)} :
        \A i \in 1..Len(regs) : regs[i].priority <= p

hasPriority(r, p) == r.priority = p

RECURSIVE orderFrom(_, _)
orderFrom(regs, p) ==
    IF p < 0 THEN << >>
    ELSE LET same == SelectSeq(regs, LAMBDA r : hasPriority(r, p))
         IN  [i \in 1..Len(same) |-> same[i].name] \o orderFrom(regs, p - 1)

\* the behaviours in descending priority, registration order within one priority
dispatchOrder(regs) == orderFrom(regs, maxPriority(regs))

\* a behaviour the enabled map does not name is enabled
isEnabled(en, name) == IF name \in DOMAIN en THEN en[name] ELSE TRUE

\* the pointer events the drag and the select-box behaviour listen to
handles(name, ev) ==
    CASE name = "dragEvent" -> ev \in {"mousedown", "mousemove", "mouseup"}
      [] name = "selection" -> ev \in {"mousedown", "mousemove", "mouseup", "mouseout"}
      [] OTHER -> FALSE

\* the state one dispatch works on
Dispatch(evs, sel, drag, sb, box) ==
    [events |-> evs, selection |-> sel, dragEvent |-> drag, selectBox |-> sb,
     selectionBox |-> box, calls |-> << >>, delivered |-> << >>,
     claimed |-> FALSE, changed |-> FALSE]

\* DragEventBehavior: a down on a hit event starts the drag of the selection (the hit
\* event alone when it was not selected) and snapshots the dragged events; a move
\* calls onDragMove with the snapshot and the positions since the down; an up ends it.
\* While it drags it claims the event.
dragEventHandle(ev, pos, st, rects, vs) ==
    IF ev = "mousedown"
    THEN LET hit == getEventAtPos(pos, rects)
             sel == IF hit = Null \/ hit.id \in st.selection
                    THEN st.selection ELSE {hit.id}
             isDragged(e) == e.id \in sel
         IN  IF hit = Null THEN st
             ELSE [st EXCEPT
                     !.selection = sel,
                     !.changed = st.changed \/ sel # st.selection,
                     !.claimed = TRUE,
                     !.dragEvent = [enabled |-> TRUE, dragging |-> TRUE,
                                    from |-> pos, to |-> pos, moves |-> 0,
                                    draggedEvents |-> SelectSeq(st.events, isDragged)]]
    ELSE IF ~st.dragEvent.dragging THEN st
    ELSE IF ev = "mousemove"
    THEN [st EXCEPT
            !.events = onDragMove(st.events, st.dragEvent.draggedEvents,
                                  [from |-> st.dragEvent.from, to |-> pos], vs),
            !.changed = TRUE,
            !.claimed = TRUE,
            !.dragEvent = [@ EXCEPT !.to = pos, !.moves = Min(@ + 1, MaxMoves)]]
    ELSE [st EXCEPT !.claimed = TRUE,
                    !.dragEvent = [newDragEvent EXCEPT !.enabled = TRUE]]

\* the select-box behaviour under the controller: the handlers of SelectBoxBehavior
selectionHandle(ev, pos, st, rects) ==
    LET out == CASE ev = "mousedown" -> onMouseDown(st.selectBox, st.selectionBox, pos)
                 [] ev = "mousemove" -> onMouseMove(st.selectBox, st.selectionBox, pos)
                 [] ev = "mouseup" -> onMouseUp(st.selectBox, st.selectionBox)
                 [] OTHER -> onMouseOut(st.selectBox, st.selectionBox)
    IN  [st EXCEPT !.selectBox = out.sb,
                   !.selectionBox = out.box,
                   !.calls = st.calls \o out.calls,
                   !.selection = applySelectCalls(st.selection, out.calls, rects),
                   !.changed = st.changed \/ out.calls # << >>]

handle(name, ev, pos, st, rects, vs) ==
    CASE name = "dragEvent" -> dragEventHandle(ev, pos, st, rects, vs)
      [] name = "selection" -> selectionHandle(ev, pos, st, rects)
      [] OTHER -> st

\* one input event, delivered to the enabled behaviours in order until one claims it
RECURSIVE deliver(_, _, _, _, _, _, _, _)
deliver(ev, pos, order, i, st, en, rects, vs) ==
    IF i > Len(order) \/ st.claimed THEN st
    ELSE IF ~isEnabled(en, order[i]) \/ ~handles(order[i], ev)
         THEN deliver(ev, pos, order, i + 1, st, en, rects, vs)
         ELSE deliver(ev, pos, order, i + 1,
                      handle(order[i], ev, pos,
                             [st EXCEPT !.delivered = Append(@, order[i])], rects, vs),
                      en, rects, vs)

dispatch(ev, pos) ==
    deliver(ev, pos, dispatchOrder(controller.registry), 1,
            Dispatch(events, selection, dragEvent, selectBox, selectionBox),
            enabled, renderedRects, viewportState)

InWindow(evs) ==
    \A i \in 1..Len(evs) :
        /\ evs[i].start \in (initialEvents[i].start - MaxBack)..MaxStart
        /\ evs[i].degree \in (initialEvents[i].degree - MaxBack)..MaxDegree

-----------------------------------------------------------------------------
(* The App with its controller bound to the canvas (Roygbiv.js) *)

Init ==
    /\ events = initialEvents
    /\ selection = {}
    /\ mode = "select"
    /\ viewportState = defaultViewportState
    /\ renderedRects = renderRects(initialEvents, defaultViewportState)
    /\ dirty = FALSE
    /\ enabled = enabledMap("select")
    /\ dragEvent = newDragEvent
    /\ selectBox = [newSelectBox EXCEPT !.canvas = "c1"]
    /\ selectionBox = Null
    /\ listeners = {"c1"}
    /\ tooltip = Null
    /\ controller = builtController
    /\ last = Step("init", Vector2(0, 0), << >>)
    /\ hist = noHist

\* the state after one dispatched input event (the behaviours keep the pointer
\* positions they need, the history does not repeat them); when it set the events or the
\* selection the component renders again and the render effect rebuilds the list
Dispatched(ev, st) ==
    /\ events' = st.events
    /\ selection' = st.selection
    /\ dragEvent' = st.dragEvent
    /\ selectBox' = st.selectBox
    /\ selectionBox' = st.selectionBox
    /\ renderedRects' = IF st.changed THEN renderRects(st.events, viewportState)
                        ELSE renderedRects
    /\ last' = StepVia(ev, Vector2(0, 0), st.calls, st.delivered)
    /\ UNCHANGED <<controller, mode, viewportState, dirty, enabled, listeners, tooltip, hist>>

MouseDown(pos) ==
    /\ pos \in Points
    /\ Dispatched("mousedown", dispatch("mousedown", pos))

MouseMove(pos) ==
    /\ InWindow(dispatch("mousemove", pos).events)
    /\ Dispatched("mousemove", dispatch("mousemove", pos))

\* the handlers of mouse-up and mouse-out do not read the pointer position
MouseUp ==
    /\ listeners # {}
    /\ Dispatched("mouseup", dispatch("mouseup", Vector2(0, 0)))

MouseOut ==
    /\ listeners # {}
    /\ Dispatched("mouseout", dispatch("mouseout", Vector2(0, 0)))

\* Controls.onModeChange: the new mode and the enabled map of the next render,
\* applied to the behaviours
SetMode(m) ==
    /\ mode' = m
    /\ enabled' = enabledMap(m)
    /\ dragEvent' = IF enabledMap(m).dragEvent = dragEvent.enabled THEN dragEvent
                    ELSE [newDragEvent EXCEPT !.enabled = enabledMap(m).dragEvent]
    /\ selectBox' = setEnabled(selectBox, selectionBox, enabledMap(m).selection).sb
    /\ selectionBox' = setEnabled(selectBox, selectionBox, enabledMap(m).selection).box
    /\ last' = Step("setMode", Vector2(0, 0), << >>)
    /\ UNCHANGED <<controller, events, selection, viewportState, renderedRects, dirty, listeners,
                   tooltip, hist>>

Next ==
    \/ \E pos \in Points : MouseDown(pos)
    \/ \E pos \in Points : MouseMove(pos)
    \/ MouseUp
    \/ MouseOut
    \/ \E m \in Modes : SetMode(m)

Spec == Init /\ [][Next]_vars

-----------------------------------------------------------------------------
(* The App with the render effect as a step of its own: an input event is   *)
(* handled once the effect of the last state change has run                 *)

\* the state after one dispatched input event, before the component renders again
Handled(ev, st) ==
    /\ ~dirty
    /\ events' = st.events
    /\ selection' = st.selection
    /\ dragEvent' = st.dragEvent
    /\ selectBox' = st.selectBox
    /\ selectionBox' = st.selectionBox
    /\ dirty' = st.changed
    /\ last' = StepVia(ev, Vector2(0, 0), st.calls, st.delivered)
    /\ UNCHANGED <<mode, viewportState, renderedRects, enabled, listeners, tooltip,
                   controller, hist>>

HandleMouseDown(pos) ==
    /\ pos \in Points
    /\ Handled("mousedown", dispatch("mousedown", pos))

HandleMouseMove(pos) ==
    /\ InWindow(dispatch("mousemove", pos).events)
    /\ Handled("mousemove", dispatch("mousemove", pos))

HandleMouseUp ==
    /\ listeners # {}
    /\ Handled("mouseup", dispatch("mouseup", Vector2(0, 0)))

HandleMouseOut ==
    /\ listeners # {}
    /\ Handled("mouseout", dispatch("mouseout", Vector2(0, 0)))

HandleSetMode(m) ==
    /\ ~dirty
    /\ SetMode(m)

NextRender ==
    \/ \E pos \in Points : HandleMouseDown(pos)
    \/ \E pos \in Points : HandleMouseMove(pos)
    \/ HandleMouseUp
    \/ HandleMouseOut
    \/ \E m \in Modes : HandleSetMode(m)
    \/ Render

SpecRender == Init /\ [][NextRender]_vars

-----------------------------------------------------------------------------
(* The hit tests as the App's callbacks and the tooltip use them, over the   *)
(* lists that several event layouts and zooms render to                      *)

\* the three events of the box-select scenario: 1x1 at x = 0, 5 and 10 of row 0
scenarioEvents ==
    << [id |-> 0, degree |-> 0, start |-> 0, duration |-> 1],
       [id |-> 1, degree |-> 0, start |-> 5, duration |-> 1],
       [id |-> 2, degree |-> 0, start |-> 10, duration |-> 1] >>

\* the initial events after event 1 was dragged onto event 2
overlappingEvents ==
    << [id |-> 0, degree |-> 0, start |-> 0, duration |-> 1],
       [id |-> 1, degree |-> 5, start |-> 6, duration |-> 1],
       [id |-> 2, degree |-> 5, start |-> 5, duration |-> 2],
       [id |-> 3, degree |-> 6, start |-> 6, duration |-> 3] >>

HitEventLists == {initialEvents, scenarioEvents, overlappingEvents}

\* pointer positions of the hit tests and corners of the select rectangles
HitPoints == {[x |-> 0, y |-> 0], [x |-> 60, y |-> 20], [x |-> 55, y |-> 10],
              [x |-> 45, y |-> 70], [x |-> 65, y |-> 110]}

\* the offsets of the viewport: the origin, and panned right and down
HitOffsets == {[x |-> 0, y |-> 0], [x |-> 15, y |-> 30]}

InitHitTest ==
    /\ events \in HitEventLists
    /\ selection = {}
    /\ mode = "select"
    /\ viewportState \in {[offset |-> o, zoom |-> Vector2(zx, zy)] :
                            o \in HitOffsets,
                            zx \in MIN_ZOOM_SCALE..MaxZoom, zy \in MIN_ZOOM_SCALE..MaxZoom}
    /\ renderedRects = << >>
    /\ dirty = TRUE
    /\ enabled = enabledMap("select")
    /\ dragEvent = newDragEvent
    /\ selectBox = [newSelectBox EXCEPT !.canvas = "c1"]
    /\ selectionBox = Null
    /\ listeners = {"c1"}
    /\ tooltip = Null
    /\ controller = builtController
    /\ last = Step("init", Vector2(0, 0), << >>)
    /\ hist = noHist

\* the select-box behaviour calls onSelectRect with the rectangle between two points
SelectRect(start, end) ==
    /\ selection' = onSelectRect(getSelectionBox(start, end), renderedRects)
    /\ dirty' = TRUE
    /\ last' = Step("onSelectRect", Vector2(0, 0), << getSelectionBox(start, end) >>)
    /\ UNCHANGED <<controller, events, mode, viewportState, renderedRects, enabled, dragEvent,
                   selectBox, selectionBox, listeners, tooltip, hist>>

\* a mouse-move over the canvas reaches the tooltip
TooltipMouseMove(mousePos) ==
    /\ tooltip' = tooltipOnMouseMove(mousePos, renderedRects)
    /\ last' = Step("tooltipMove", mousePos, << >>)
    /\ UNCHANGED <<appVars, selectBox, selectionBox, listeners, hist>>

NextHitTest ==
    \/ Render
    \/ \E start \in HitPoints, end \in HitPoints : SelectRect(start, end)
    \/ \E mousePos \in HitPoints : TooltipMouseMove(mousePos)

SpecHitTest == InitHitTest /\ [][NextHitTest]_vars

-----------------------------------------------------------------------------
(* getExtents and the viewport state the App starts from (Roygbiv.js) *)

\* the accumulator of a reduce that starts from Infinity or -Infinity
Infinity == [inf |-> 1, v |-> 0]

NegInfinity == [inf |-> -1, v |-> 0]

Finite(n) == [inf |-> 0, v |-> n]

\* Math.min / Math.max of an accumulator and a number
MathMin(acc, n) ==
    IF acc.inf = 1 THEN Finite(n)
    ELSE IF acc.inf = -1 THEN acc
    ELSE Finite(Min(acc.v, n))

MathMax(acc, n) ==
    IF acc.inf = -1 THEN Finite(n)
    ELSE IF acc.inf = 1 THEN acc
    ELSE Finite(Max(acc.v, n))

\* events.reduce((acc, ev) => Math.min(acc, ev.degree), acc), from index i on
RECURSIVE reduceMinDegree(_, _, _)
reduceMinDegree(evs, i, acc) ==
    IF i > Len(evs) THEN acc
    ELSE reduceMinDegree(evs, i + 1, MathMin(acc, evs[i].degree))

RECURSIVE reduceMaxDegree(_, _, _)
reduceMaxDegree(evs, i, acc) ==
    IF i > Len(evs) THEN acc
    ELSE reduceMaxDegree(evs, i + 1, MathMax(acc, evs[i].degree))

RECURSIVE reduceMinStart(_, _, _)
reduceMinStart(evs, i, acc) ==
    IF i > Len(evs) THEN acc
    ELSE reduceMinStart(evs, i + 1, MathMin(acc, evs[i].start))

RECURSIVE reduceMaxEnd(_, _, _)
reduceMaxEnd(evs, i, acc) ==
    IF i > Len(evs) THEN acc
    ELSE reduceMaxEnd(evs, i + 1, MathMax(acc, evs[i].start + evs[i].duration))

\* a variant of getExtents whose end is the largest start
getExtents_EndIsLastStart(evs) ==
    IF Len(evs) = 0
    THEN [start |-> 0, end |-> 0, size |-> 0,
          minDegree |-> 0, maxDegree |-> NumScaleDegrees - 1]
    ELSE LET start == reduceMinStart(evs, 1, Infinity).v
             end == reduceMaxEnd([i \in 1..Len(evs) |-> [evs[i] EXCEPT !.duration = 0]],
                                 1, NegInfinity).v
         IN  [start |-> start, end |-> end, size |-> end - start,
              minDegree |-> reduceMinDegree(evs, 1, Finite(0)).v,
              maxDegree |-> reduceMaxDegree(evs, 1, Finite(NumScaleDegrees - 1)).v]

getExtents(evs) ==
    IF Len(evs) = 0
    THEN [start |-> 0, end |-> 0, size |-> 0,
          minDegree |-> 0, maxDegree |-> NumScaleDegrees - 1]
    ELSE LET start == reduceMinStart(evs, 1, Infinity).v
             end == reduceMaxEnd(evs, 1, NegInfinity).v
         IN  [start |-> start, end |-> end, size |-> end - start,
              minDegree |-> reduceMinDegree(evs, 1, Finite(0)).v,
              maxDegree |-> reduceMaxDegree(evs, 1, Finite(NumScaleDegrees - 1)).v]

-----------------------------------------------------------------------------
(* Numbers that are not whole: the zoom that fits the extents and the      *)
(* offsets it leads to are kept as fractions in lowest terms               *)

RECURSIVE GCD(_, _)
GCD(a, b) == IF b = 0 THEN a ELSE GCD(b, a % b)

\* n / d in lowest terms, for d > 0
FracNorm(n, d) ==
    LET g == GCD(Abs(n), d)
    IN  IF g = 0 THEN Frac(n, d) ELSE Frac(n \div g, d \div g)

Whole(n) == Frac(n, 1)

FracAdd(f, g) == FracNorm(f.num * g.den + g.num * f.den, f.den * g.den)

FracSub(f, g) == FracNorm(f.num * g.den - g.num * f.den, f.den * g.den)

FracMul(f, g) == FracNorm(f.num * g.num, f.den * g.den)

\* f / g for g > 0
FracDiv(f, g) == FracNorm(f.num * g.den, f.den * g.num)

FracLess(f, g) == f.num * g.den < g.num * f.den

FracMax(f, g) == IF FracLess(f, g) THEN g ELSE f

FracEq(f, g) == f.num * g.den = g.num * f.den

-----------------------------------------------------------------------------
(* The inverse conversions of the viewport (./viewport), for a zoom of whole *)
(* numbers                                                                  *)

\* screenPoint / zoom + offset, componentwise
positionFromScreen(vs, sp) ==
    Vector2(FracAdd(FracNorm(sp.x, vs.zoom.x), Whole(vs.offset.x)),
            FracAdd(FracNorm(sp.y, vs.zoom.y), Whole(vs.offset.y)))

\* screenSize / zoom
sizeFromScreen(vs, sz) == Vector2(sizeXFromScreen(vs, sz.x), sizeYFromScreen(vs, sz.y))

-----------------------------------------------------------------------------
(* The viewport state and the behaviours that publish it (./viewport)      *)

\* MIN_ZOOM, the minimum handed to wheelZoom and to the controls
MIN_ZOOM == Vector2(Whole(MIN_ZOOM_SCALE), Whole(MIN_ZOOM_SCALE))

\* makeViewportStateFromExtents: the zoom that fits the rectangle min..max into the
\* viewport's dimensions, per axis, with min at the screen origin
makeViewportStateFromExtents(extents, viewportDimensions) ==
    [offset |-> Vector2(Whole(extents.min.x), Whole(extents.min.y)),
     zoom |-> Vector2(FracNorm(viewportDimensions.width,
                               extents.max.x - extents.min.x),
                      FracNorm(viewportDimensions.height,
                               extents.max.y - extents.min.y))]

\* getViewportStateZoomedToExtents, for the events evs and the window's dimensions
getViewportStateZoomedToExtents(evs, viewportDimensions) ==
    LET extents == getExtents(evs)
    IN  makeViewportStateFromExtents(
            [min |-> Vector2(toDomain(quantizerX, extents.start),
                             toDomain(quantizerY, extents.minDegree)),
             max |-> Vector2(toDomain(quantizerX, extents.end),
                             toDomain(quantizerY, extents.maxDegree + 1))],
            viewportDimensions)

\* DragPanBehavior, a move while panning: the offset moves by the world-space delta
dragPanMove(vs, delta) ==
    [vs EXCEPT !.offset = Vector2(FracSub(vs.offset.x, FracDiv(Whole(delta.x), vs.zoom.x)),
                                  FracSub(vs.offset.y, FracDiv(Whole(delta.y), vs.zoom.y)))]

\* the zoom of one axis after a wheel event: multiplied, then clamped to the minimum
wheelZoomAxis(zoom, factor, minZoom) == FracMax(FracMul(zoom, factor), minZoom)

\* the offset of one axis that keeps the world point under the cursor fixed
recentre(offset, cursor, zoom, newZoom) ==
    FracSub(FracAdd(offset, FracDiv(Whole(cursor), zoom)), FracDiv(Whole(cursor), newZoom))

\* WheelZoomBehavior, a wheel event at cursor: the axes of dimensions are zoomed
wheelZoom(vs, cursor, factor, dimensions, minZoom) ==
    LET zx == IF dimensions.x THEN wheelZoomAxis(vs.zoom.x, factor, minZoom.x)
              ELSE vs.zoom.x
        zy == IF dimensions.y THEN wheelZoomAxis(vs.zoom.y, factor, minZoom.y)
              ELSE vs.zoom.y
    IN  [offset |-> Vector2(recentre(vs.offset.x, cursor.x, vs.zoom.x, zx),
                            recentre(vs.offset.y, cursor.y, vs.zoom.y, zy)),
         zoom |-> Vector2(zx, zy)]

\* WheelScrollBehavior: the wheel delta is added to the offset
wheelScroll(vs, delta) ==
    [vs EXCEPT !.offset = Vector2(FracAdd(vs.offset.x, Whole(delta.x)),
                                  FracAdd(vs.offset.y, Whole(delta.y)))]

\* the props the App hands to wheelZoom: dimensions {x: true}, minZoom MIN_ZOOM
wheelZoomProps == [dimensions |-> [x |-> TRUE, y |-> FALSE], minZoom |-> MIN_ZOOM]

\* Controls, a zoom entered for the x axis: not below minZoom
controlsZoom(vs, zoomX, minZoom) ==
    [vs EXCEPT !.zoom = Vector2(FracMax(zoomX, minZoom.x), vs.zoom.y)]

\* the window sizes: the canvas' default size and a small window
WindowSizes == {[width |-> 1000, height |-> 600], [width |-> 400, height |-> 120]}

\* the initial events after event 3 was dragged to start 120
wideEvents ==
    << [id |-> 0, degree |-> 0, start |-> 0, duration |-> 1],
       [id |-> 1, degree |-> 3, start |-> 4, duration |-> 1],
       [id |-> 2, degree |-> 5, start |-> 5, duration |-> 2],
       [id |-> 3, degree |-> 6, start |-> 120, duration |-> 3] >>

\* the wheel factors (in and out), the pan and scroll deltas and the cursor positions
WheelFactors == {Frac(2, 1), Frac(1, 2)}

PanDeltas == {[x |-> 10, y |-> 0], [x |-> -10, y |-> 0], [x |-> 0, y |-> 20]}

\* the wheel deltas of a vertical scroll
ScrollDeltas == {[x |-> 0, y |-> 2], [x |-> 0, y |-> -2]}

Cursors == {[x |-> 0, y |-> 0], [x |-> 100, y |-> 40]}

\* the viewport states the model follows: zoom up to MaxViewZoom, offsets within
\* MaxOffset of the origin
InView(vs) ==
    /\ ~FracLess(Whole(MaxViewZoom), vs.zoom.x)
    /\ ~FracLess(Whole(MaxViewZoom), vs.zoom.y)
    /\ \A o \in {vs.offset.x, vs.offset.y} :
          /\ ~FracLess(Whole(MaxOffset), o)
          /\ ~FracLess(o, Whole(-MaxOffset))

InitViewport ==
    /\ events \in {initialEvents, wideEvents}
    /\ selection = {}
    /\ mode = "select"
    /\ \E dims \in WindowSizes :
          viewportState = getViewportStateZoomedToExtents(events, dims)
    /\ renderedRects = << >>
    /\ dirty = FALSE
    /\ enabled = enabledMap("select")
    /\ dragEvent = newDragEvent
    /\ selectBox = [newSelectBox EXCEPT !.canvas = "c1"]
    /\ selectionBox = Null
    /\ listeners = {"c1"}
    /\ tooltip = Null
    /\ controller = builtController
    /\ last = Step("init", Vector2(0, 0), << >>)
    /\ hist = noHist

\* setViewportState(vs) by the step op
Published(op, vs) ==
    /\ InView(vs)
    /\ viewportState' = vs
    /\ last' = Step(op, Vector2(0, 0), << >>)
    /\ UNCHANGED <<controller, events, selection, mode, renderedRects, dirty, enabled, dragEvent,
                   selectBox, selectionBox, listeners, tooltip, hist>>

DragPan(delta) ==
    /\ enabled.dragPan
    /\ Published("dragPan", dragPanMove(viewportState, delta))

WheelZoom(cursor, factor) ==
    /\ enabled.wheelZoom
    /\ Published("wheelZoom", wheelZoom(viewportState, cursor, factor,
                                        wheelZoomProps.dimensions, wheelZoomProps.minZoom))

WheelScroll(delta) ==
    /\ enabled.wheelScroll
    /\ Published("wheelScroll", wheelScroll(viewportState, delta))

\* Controls: the zoom is reset to getDefaultViewportState()
ControlsReset(dims) ==
    /\ dims \in WindowSizes
    /\ Published("controlsReset", getViewportStateZoomedToExtents(events, dims))

ControlsZoom(zoomX) ==
    /\ zoomX \in WheelFactors
    /\ Published("controlsZoom", controlsZoom(viewportState, zoomX, MIN_ZOOM))

ViewSetMode(m) ==
    /\ mode' = m
    /\ enabled' = enabledMap(m)
    /\ last' = Step("setMode", Vector2(0, 0), << >>)
    /\ UNCHANGED <<controller, events, selection, viewportState, renderedRects, dirty, dragEvent,
                   selectBox, selectionBox, listeners, tooltip, hist>>

NextViewport ==
    \/ \E delta \in PanDeltas : DragPan(delta)
    \/ \E cursor \in Cursors, factor \in WheelFactors : WheelZoom(cursor, factor)
    \/ \E delta \in ScrollDeltas : WheelScroll(delta)
    \/ \E dims \in WindowSizes : ControlsReset(dims)
    \/ \E zoomX \in WheelFactors : ControlsZoom(zoomX)
    \/ \E m \in Modes : ViewSetMode(m)

SpecViewport == InitViewport /\ [][NextViewport]_vars

-----------------------------------------------------------------------------
(* The two quantizers applied to range values: to('pixels', v), then        *)
(* to(range alias, pixels)                                                  *)

\* to(domain alias, f) of a range value that need not be whole
toDomainFrac(q, f) ==
    LET dw == q.domain[2] - q.domain[1]
        rw == q.range[2] - q.range[1]
    IN  FracNorm((f.num - q.range[1] * f.den) * dw + q.domain[1] * rw * f.den,
                 rw * f.den)

quantizerOf(axis) == IF axis = "scaleDegrees" THEN quantizerY ELSE quantizerX

\* the range values: the quarters between -MaxQuarters / 4 and MaxQuarters / 4
RangeValues == {FracNorm(n, 4) : n \in -MaxQuarters..MaxQuarters}

InitQuantizer ==
    /\ events = initialEvents
    /\ selection = {}
    /\ mode = "select"
    /\ viewportState = defaultViewportState
    /\ renderedRects = << >>
    /\ dirty = FALSE
    /\ enabled = enabledMap("select")
    /\ dragEvent = newDragEvent
    /\ selectBox = newSelectBox
    /\ selectionBox = Null
    /\ listeners = {}
    /\ tooltip = Null
    /\ controller = builtController
    /\ last = [op |-> "init"]
    /\ hist = noHist

\* quantizer.to('pixels', v)
ToPixels(axis, v) ==
    /\ last' = [op |-> "toPixels", axis |-> axis, v |-> v,
                pixels |-> toDomainFrac(quantizerOf(axis), v)]
    /\ UNCHANGED <<controller, events, selection, mode, viewportState, renderedRects, dirty,
                   enabled, dragEvent, selectBox, selectionBox, listeners, tooltip, hist>>

\* quantizer.to('scaleDegrees' or 'quarterNotes', pixels) of the pixels just computed
ToRange ==
    /\ last.op = "toPixels"
    /\ last' = [op |-> "toRange", axis |-> last.axis, v |-> last.v,
                pixels |-> last.pixels,
                back |-> toRange(quantizerOf(last.axis), last.pixels)]
    /\ UNCHANGED <<controller, events, selection, mode, viewportState, renderedRects, dirty,
                   enabled, dragEvent, selectBox, selectionBox, listeners, tooltip, hist>>

NextQuantizer ==
    \/ \E axis \in {"scaleDegrees", "quarterNotes"}, v \in RangeValues : ToPixels(axis, v)
    \/ ToRange

SpecQuantizer == InitQuantizer /\ [][NextQuantizer]_vars

-----------------------------------------------------------------------------
(* A controller under construction: addBehavior calls and the App's factory *)

BehaviorNames == {"dragPan", "wheelZoom", "wheelScroll", "dragEvent", "selection",
                  "tooltip"}

Priorities == {1, 2}

InitController ==
    /\ events = initialEvents
    /\ selection = {}
    /\ mode = "select"
    /\ viewportState = defaultViewportState
    /\ renderedRects = << >>
    /\ dirty = FALSE
    /\ enabled = enabledMap("select")
    /\ dragEvent = newDragEvent
    /\ selectBox = newSelectBox
    /\ selectionBox = Null
    /\ listeners = {}
    /\ tooltip = Null
    /\ controller = newController
    /\ last = [op |-> "init", before |-> << >>]
    /\ hist = noHist

\* controller.addBehavior(name, factory, priority); the model follows registries of
\* up to MaxBehaviors behaviours
AddBehavior(name, priority) ==
    /\ Len(controller.registry) < MaxBehaviors \/ isRegistered(controller.registry, name)
    /\ controller' = addBehavior(controller, name, priority)
    /\ last' = [op |-> "addBehavior", name |-> name, priority |-> priority,
                before |-> controller.registry]
    /\ UNCHANGED <<events, selection, mode, viewportState, renderedRects, dirty, enabled,
                   dragEvent, selectBox, selectionBox, listeners, tooltip, hist>>

\* the factory of useBehaviors builds a new controller
UseBehaviorsFactory ==
    /\ controller' = builtController
    /\ last' = [op |-> "factory", before |-> << >>]
    /\ UNCHANGED <<events, selection, mode, viewportState, renderedRects, dirty, enabled,
                   dragEvent, selectBox, selectionBox, listeners, tooltip, hist>>

NextController ==
    \/ \E name \in BehaviorNames, priority \in Priorities : AddBehavior(name, priority)
    \/ UseBehaviorsFactory

SpecController == InitController /\ [][NextController]_vars

-----------------------------------------------------------------------------
(* Drag gestures at zooms that need not be whole, over events whose start   *)
(* and degree are numbers that need not be whole either                     *)

\* the events with their start and degree as numbers
asNumbers(evs) ==
    [i \in 1..Len(evs) |-> [evs[i] EXCEPT !.start = Whole(@), !.degree = Whole(@)]]

\* a variant of onDragMove that adds the world delta without the quantizers
onDragMoveNumbers_Unquantized(evs, draggedEvents, pos, vs) ==
    LET deltaX == pos.to.x - pos.from.x
        deltaY == pos.to.y - pos.from.y
    IN  [i \in 1..Len(evs) |->
            IF draggedHas(draggedEvents, evs[i].id)
            THEN [evs[i] EXCEPT
                    !.start = FracAdd(draggedGet(draggedEvents, evs[i].id).start,
                                      FracDiv(FracDiv(Whole(deltaX), vs.zoom.x),
                                              Whole(QUARTER_NOTE_WIDTH))),
                    !.degree = FracAdd(draggedGet(draggedEvents, evs[i].id).degree,
                                       FracDiv(FracDiv(Whole(deltaY), vs.zoom.y),
                                               Whole(TIMELINE_ROW_HEIGHT)))]
            ELSE evs[i]]

\* onDragMove(draggedEvents, pos) over numbers: viewport.sizeXFromScreen(delta.x) is
\* delta.x / zoom.x, the quantizers round it to a whole number of steps
onDragMoveNumbers(evs, draggedEvents, pos, vs) ==
    LET deltaX == pos.to.x - pos.from.x
        deltaY == pos.to.y - pos.from.y
        deltaXQuantized == toRange(quantizerX, FracDiv(Whole(deltaX), vs.zoom.x))
        deltaYQuantized == toRange(quantizerY, FracDiv(Whole(deltaY), vs.zoom.y))
    IN  [i \in 1..Len(evs) |->
            IF draggedHas(draggedEvents, evs[i].id)
            THEN [evs[i] EXCEPT
                    !.start = FracAdd(draggedGet(draggedEvents, evs[i].id).start,
                                      Whole(deltaXQuantized)),
                    !.degree = FracAdd(draggedGet(draggedEvents, evs[i].id).degree,
                                       Whole(deltaYQuantized))]
            ELSE evs[i]]

\* the zooms of the drags: the minimum, a whole one, and two that fit extents
DragZooms == {Vector2(Whole(1), Whole(1)), Vector2(Whole(2), Whole(3)),
              Vector2(Frac(100, 9), Frac(30, 7)), Vector2(Frac(3, 2), Frac(7, 4))}

\* the pointer positions of the drags
DragPoints == {[x |-> 45, y |-> 110], [x |-> 47, y |-> 110], [x |-> 65, y |-> 110],
               [x |-> 60, y |-> 145], [x |-> 156, y |-> 196]}

\* the events the pointer goes down on
DraggedIndices == {2, 3}

InWindowNumbers(evs) ==
    \A i \in 1..Len(evs) :
        /\ ~FracLess(evs[i].start, Whole(initialEvents[i].start - MaxBack))
        /\ ~FracLess(Whole(MaxStart), evs[i].start)
        /\ ~FracLess(evs[i].degree, Whole(initialEvents[i].degree - MaxBack))
        /\ ~FracLess(Whole(MaxDegree), evs[i].degree)

InitDrag ==
    /\ events = asNumbers(initialEvents)
    /\ selection = {}
    /\ mode = "select"
    /\ viewportState \in {[offset |-> Vector2(Whole(0), Whole(0)), zoom |-> z] :
                            z \in DragZooms}
    /\ renderedRects = << >>
    /\ dirty = FALSE
    /\ enabled = enabledMap("select")
    /\ dragEvent = newDragEvent
    /\ selectBox = [newSelectBox EXCEPT !.canvas = "c1"]
    /\ selectionBox = Null
    /\ listeners = {"c1"}
    /\ tooltip = Null
    /\ controller = builtController
    /\ last = Step("init", Vector2(0, 0), << >>)
    /\ hist = noHist

\* a mouse-down on the event at index k starts a drag of that event
DragDown(k, pos) ==
    /\ ~dragEvent.dragging
    /\ dragEvent' = [enabled |-> TRUE, dragging |-> TRUE, from |-> pos, to |-> pos,
                     moves |-> 0, draggedEvents |-> << events[k] >>]
    /\ last' = Step("mousedown", Vector2(0, 0), << >>)
    /\ UNCHANGED <<events, selection, mode, viewportState, renderedRects, dirty, enabled,
                   selectBox, selectionBox, listeners, tooltip, controller, hist>>

\* a mouse-move of the drag calls onDragMove
DragTo(pos) ==
    /\ dragEvent.dragging
    /\ events' = onDragMoveNumbers(events, dragEvent.draggedEvents,
                                   [from |-> dragEvent.from, to |-> pos], viewportState)
    /\ InWindowNumbers(events')
    /\ dragEvent' = [dragEvent EXCEPT !.to = pos, !.moves = Min(@ + 1, MaxMoves)]
    /\ last' = Step("mousemove", Vector2(0, 0), << >>)
    /\ UNCHANGED <<selection, mode, viewportState, renderedRects, dirty, enabled,
                   selectBox, selectionBox, listeners, tooltip, controller, hist>>

DragUp ==
    /\ dragEvent.dragging
    /\ dragEvent' = newDragEvent
    /\ last' = Step("mouseup", Vector2(0, 0), << >>)
    /\ UNCHANGED <<events, selection, mode, viewportState, renderedRects, dirty, enabled,
                   selectBox, selectionBox, listeners, tooltip, controller, hist>>

\* between two gestures the viewport is zoomed
DragZoomed(z) ==
    /\ ~dragEvent.dragging
    /\ viewportState' = [viewportState EXCEPT !.zoom = z]
    /\ last' = Step("zoom", Vector2(0, 0), << >>)
    /\ UNCHANGED <<events, selection, mode, renderedRects, dirty, enabled, dragEvent,
                   selectBox, selectionBox, listeners, tooltip, controller, hist>>

NextDrag ==
    \/ \E k \in DraggedIndices, pos \in DragPoints : DragDown(k, pos)
    \/ \E pos \in DragPoints : DragTo(pos)
    \/ DragUp
    \/ \E z \in DragZooms : DragZoomed(z)

SpecDrag == InitDrag /\ [][NextDrag]_vars

-----------------------------------------------------------------------------
(* getExtents over event lists: the empty list, one event and two events,   *)
(* moved by drags above row 0 and below row 6                               *)

\* the events an event list starts from: id i - 1 at index i, as initialEvents' are
ExtentEventValues ==
    [id : {0, 1}, degree : {-1, 0, 3, 7}, start : {0, 2, 5}, duration : {1, 3}]

\* the lengths of the lists: none, one event, two events
ExtentLengths == {0, 1, 2}

ExtentEventLists ==
    UNION {{evs \in [1..n -> ExtentEventValues] : \A i \in 1..n : evs[i].id = i - 1} :
             n \in ExtentLengths}

\* the pointer positions a drag from (0,0) goes to: one step along each axis
ExtentDragPoints == {[x |-> QUARTER_NOTE_WIDTH, y |-> 0], [x |-> -QUARTER_NOTE_WIDTH, y |-> 0],
                     [x |-> 0, y |-> TIMELINE_ROW_HEIGHT], [x |-> 0, y |-> -TIMELINE_ROW_HEIGHT]}

InExtentWindow(evs) ==
    \A i \in 1..Len(evs) :
        /\ evs[i].start \in 0..MaxStart
        /\ evs[i].degree \in (-MaxUp)..MaxDegree

InitExtents ==
    /\ events \in ExtentEventLists
    /\ selection = {}
    /\ mode = "select"
    /\ viewportState = defaultViewportState
    /\ renderedRects = << >>
    /\ dirty = FALSE
    /\ enabled = enabledMap("select")
    /\ dragEvent = newDragEvent
    /\ selectBox = [newSelectBox EXCEPT !.canvas = "c1"]
    /\ selectionBox = Null
    /\ listeners = {"c1"}
    /\ tooltip = Null
    /\ controller = builtController
    /\ last = [op |-> "init"]
    /\ hist = noHist

\* a drag of the event at index k by one step: onDragMove with its snapshot
ExtentsDragMove(k, pos) ==
    /\ k \in 1..Len(events)
    /\ events' = onDragMove(events, << events[k] >>,
                            [from |-> Vector2(0, 0), to |-> pos], viewportState)
    /\ InExtentWindow(events')
    /\ last' = [op |-> "mousemove"]
    /\ UNCHANGED <<selection, mode, viewportState, renderedRects, dirty, enabled,
                   dragEvent, selectBox, selectionBox, listeners, tooltip, controller,
                   hist>>

\* the component renders: extents = getExtents(events)
ExtentsMemo ==
    /\ last' = [op |-> "getExtents", extents |-> getExtents(events)]
    /\ UNCHANGED <<events, selection, mode, viewportState, renderedRects, dirty, enabled,
                   dragEvent, selectBox, selectionBox, listeners, tooltip, controller,
                   hist>>

NextExtents ==
    \/ \E k \in ExtentLengths, pos \in ExtentDragPoints : ExtentsDragMove(k, pos)
    \/ ExtentsMemo

SpecExtents == InitExtents /\ [][NextExtents]_vars

-----------------------------------------------------------------------------
(* Properties of the select-box behaviour, under SpecSelectBox *)

\* the axis-aligned rectangle spanned by two points, stated by its corners
SpansPoints(r, p, q) ==
    /\ r.size.x >= 0 /\ r.size.y >= 0
    /\ r.position.x = Min(p.x, q.x) /\ r.position.x + r.size.x = Max(p.x, q.x)
    /\ r.position.y = Min(p.y, q.y) /\ r.position.y + r.size.y = Max(p.y, q.y)

\* C1: once the behaviour is disabled during a gesture (mouse-down, moves, then
\* setEnabled(false)), the select box is cleared and stays cleared through every
\* following move, and the mouse-up that follows does not call onSelectRect.
C1_DisableAbortsGesture ==
    /\ hist.phase = "disabled" => selectionBox = Null
    /\ (hist.prev = "disabled" /\ last.op = "mouseup")
          => (last.calls = << >> /\ selectionBox = Null)

\* C2: after a mouse-out while selecting the box is cleared, the behaviour is idle,
\* and onSelectRect is not called for that gesture, not even by a later mouse-up
\* that no mouse-down precedes.
C2_MouseOutAbortsWithoutCommit ==
    /\ hist.phase = "out"
          => (~selectBox.selecting /\ selectionBox = Null /\ last.calls = << >>)
    /\ (hist.prev = "out" /\ last.op = "mouseup") => last.calls = << >>

\* C3: in an enabled gesture mouse-down, move*, mouse-up, onSelectRect is not called
\* before the up; the up calls it exactly once, with the axis-aligned rectangle
\* between the anchor and the last pointer position (the anchor itself when there
\* was no move), and leaves the behaviour idle with no select box shown.
C3_GestureCommitsOnceOnUp ==
    /\ hist.phase = "gesture" => last.calls = << >>
    /\ (hist.prev = "gesture" /\ last.op = "mouseup")
          => /\ Len(last.calls) = 1
             /\ SpansPoints(last.calls[1], hist.anchor, hist.lastPos)
             /\ ~selectBox.selecting
             /\ selectionBox = Null

\* a gesture dragged left and down has just been committed
C3_Witness ==
    /\ hist.prev = "gesture" /\ last.op = "mouseup"
    /\ hist.lastPos.x < hist.anchor.x /\ hist.lastPos.y > hist.anchor.y
    /\ Len(last.calls) = 1 /\ last.calls[1].size.x > 0

\* C10: when the canvas is unbound during a select gesture, the listeners are
\* detached, the behaviour is idle (selecting = false) and no select box is shown.
C10_UnbindCancelsGesture ==
    (last.op = "unbind" /\ hist.prev = "gesture")
       => /\ selectBox.canvas = NoCanvas /\ listeners = {}
          /\ ~selectBox.selecting
          /\ selectionBox = Null

-----------------------------------------------------------------------------
(* Properties of the App, under Spec *)

\* the integer nearest to d / unit (halves upwards), for unit > 0
NearestStep(d, unit) ==
    CHOOSE q \in -50..50 : 2 * unit * q - unit <= 2 * d /\ 2 * d < 2 * unit * q + unit

\* the live event with the id of a snapshot entry
liveEvent(id) == events[CHOOSE i \in 1..Len(events) : events[i].id = id]

\* C6: during a drag gesture, after any number of drag-move callbacks, every dragged
\* event's start and degree are its snapshot (pre-drag) value plus the quantized
\* delta of the latest move alone.
C6_DragAppliesLatestDeltaToSnapshot ==
    (dragEvent.dragging /\ dragEvent.moves > 0)
      => \A k \in 1..Len(dragEvent.draggedEvents) :
           LET before == dragEvent.draggedEvents[k]
               dx == dragEvent.to.x - dragEvent.from.x
               dy == dragEvent.to.y - dragEvent.from.y
           IN  /\ liveEvent(before.id).start = before.start
                     + NearestStep(dx, QUARTER_NOTE_WIDTH * viewportState.zoom.x)
               /\ liveEvent(before.id).degree = before.degree
                     + NearestStep(dy, TIMELINE_ROW_HEIGHT * viewportState.zoom.y)

\* a second or later move of a gesture has moved a dragged event off its snapshot
C6_Witness ==
    /\ dragEvent.dragging /\ dragEvent.moves = MaxMoves
    /\ \E k \in 1..Len(dragEvent.draggedEvents) :
          liveEvent(dragEvent.draggedEvents[k].id).degree
            # dragEvent.draggedEvents[k].degree

\* an event at world (4,5) is being dragged by dx pixels along x at zoom 1
DraggedFrom45By(dx, k) ==
    /\ dragEvent.dragging /\ dragEvent.moves > 0
    /\ viewportState.zoom = Vector2(1, 1)
    /\ k \in 1..Len(dragEvent.draggedEvents)
    /\ dragEvent.draggedEvents[k].start = 4
    /\ dragEvent.draggedEvents[k].degree = 5
    /\ dragEvent.to.x - dragEvent.from.x = dx
    /\ dragEvent.to.y = dragEvent.from.y

\* C7 as stated: dragging an event at world (4,5) by 2 x zoom.x pixels along x at
\* zoom 1 updates its start to 6.
C7_DragByTwoPixels ==
    \A k \in 1..Len(events) :
        DraggedFrom45By(2 * viewportState.zoom.x, k)
          => liveEvent(dragEvent.draggedEvents[k].id).start = 6

\* C7, amended: dragging an event at world (4,5) by 2 x QUARTER_NOTE_WIDTH x zoom.x
\* (20) pixels along x at zoom 1 updates its start to 6 and keeps its degree.
C7_DragByTwoQuarterNotes ==
    \A k \in 1..Len(events) :
        DraggedFrom45By(2 * QUARTER_NOTE_WIDTH * viewportState.zoom.x, k)
          => /\ liveEvent(dragEvent.draggedEvents[k].id).start = 6
             /\ liveEvent(dragEvent.draggedEvents[k].id).degree = 5

C7_Witness ==
    \E k \in 1..Len(events) :
        DraggedFrom45By(2 * QUARTER_NOTE_WIDTH * viewportState.zoom.x, k)

\* C8: a mouse-down reaches dragEvent (priority 2) before selection (priority 1),
\* and when it starts a drag the select-box behaviour is not delivered the event:
\* its state and the select box are unchanged, no select gesture starts.
C8_DragClaimsMouseDown ==
    [][last'.op = "mousedown"
         => /\ (enabled.dragEvent /\ enabled.selection)
                 => (last'.delivered # << >> /\ last'.delivered[1] = "dragEvent")
            /\ (~dragEvent.dragging /\ dragEvent'.dragging)
                 => /\ last'.delivered = << "dragEvent" >>
                    /\ selectBox' = selectBox
                    /\ selectionBox' = selectionBox]_vars

\* a mouse-down on an event has started a drag and no select gesture
C8_Witness ==
    /\ last.op = "mousedown" /\ dragEvent.dragging
    /\ last.delivered = << "dragEvent" >> /\ ~selectBox.selecting

\* C9: whatever the mode, the pan group (dragPan, wheelZoom) and the select group
\* (selection, dragEvent) are not enabled together, and neither are the two wheel
\* consumers wheelZoom and wheelScroll.
C9_OneModeGroupEnabled ==
    /\ ~((enabled.dragPan \/ enabled.wheelZoom)
          /\ (enabled.selection \/ enabled.dragEvent))
    /\ ~(enabled.wheelZoom /\ enabled.wheelScroll)

\* the pan group is enabled; and a mode that is neither pan nor select was set
C9_Witness ==
    \/ mode = "pan" /\ enabled.dragPan /\ enabled.wheelZoom /\ last.op = "setMode"
    \/ mode = "hand" /\ enabled.wheelScroll /\ last.op = "setMode"

-----------------------------------------------------------------------------
(* Properties of the hit tests, under SpecHitTest *)

\* the indices of the drawn rects that intersect r
IntersectingIndices(r) ==
    {i \in 1..Len(renderedRects) : intersectsRect(renderedRects[i].rect, r)}

\* the indices of the drawn rects that contain p
ContainingIndices(p) ==
    {i \in 1..Len(renderedRects) : containsPoint(renderedRects[i].rect, p)}

\* the select rectangle of the scenario: world x in [0,6] of row 0, at zoom 1
scenarioRect == Rect(Vector2(0, 0), Vector2(60, 20))

ScenarioDrawn ==
    /\ events = scenarioEvents
    /\ viewportState = defaultViewportState
    /\ renderedRects = renderRects(scenarioEvents, defaultViewportState)

\* C4: box selection sets the selection to exactly the ids of the events whose
\* drawn rectangle intersects the select rectangle, each once; for the scenario's
\* events and a select rectangle over world x in [0,6] these are the first two ids.
C4_BoxSelectsExactlyIntersecting ==
    last.op = "onSelectRect"
      => /\ selection = {renderedRects[i].object.id : i \in IntersectingIndices(last.calls[1])}
         /\ Len(findIntersectingEvents(last.calls[1], renderedRects))
              = Cardinality(selection)
         /\ (ScenarioDrawn /\ last.calls[1] = scenarioRect) => selection = {0, 1}

\* the scenario's rectangle has just been selected over the scenario's events
C4_Witness ==
    /\ last.op = "onSelectRect" /\ ScenarioDrawn
    /\ last.calls[1] = scenarioRect /\ selection = {0, 1}

\* C5: the point hit test yields the object of the last rectangle of the list that
\* contains the point, and null exactly when no rectangle contains it; the tooltip
\* shows that object at the pointer position.
C5_PointHitIsLastDrawn ==
    last.op = "tooltipMove"
      => LET hits == ContainingIndices(last.pos)
         IN  /\ (tooltip = Null) <=> (hits = {})
             /\ hits # {}
                  => /\ \E i \in hits :
                          /\ \A j \in hits : j <= i
                          /\ tooltip.event = renderedRects[i].object
                     /\ tooltip.pos = last.pos

\* the pointer is over two drawn rectangles and the tooltip shows an event
C5_Witness ==
    /\ last.op = "tooltipMove"
    /\ Cardinality(ContainingIndices(last.pos)) >= 2
    /\ tooltip # Null

-----------------------------------------------------------------------------
(* Properties of the viewport state, under SpecViewport *)

-----------------------------------------------------------------------------
(* Properties of Rect.intersectsRect as the box selection uses it, under    *)
(* SpecHitTest                                                             *)

\* the rectangles of a state: the drawn ones and the select rectangle just passed
RectsInPlay ==
    {renderedRects[i].rect : i \in 1..Len(renderedRects)}
      \cup (IF last.op = "onSelectRect" THEN {last.calls[1]} ELSE {})

IsSymmetricInPlay ==
    \A a \in RectsInPlay, b \in RectsInPlay : intersectsRect(a, b) = intersectsRect(b, a)

-----------------------------------------------------------------------------
(* Properties of the quantizers, under SpecQuantizer *)

\* the pixels of one step of the range of an axis
PixelsPerStep(axis) ==
    IF axis = "scaleDegrees" THEN TIMELINE_ROW_HEIGHT ELSE QUARTER_NOTE_WIDTH

\* C13: for the editor's quantizers (stepSize 1, round nearest, 20 pixels per scale
\* degree, 10 pixels per quarter note), mapping a range value v to pixels and back
\* gives a multiple of stepSize within one stepSize of v, and v itself when v is
\* whole: to('scaleDegrees', to('pixels', 3)) = 3.
C13_QuantizerRoundTrip ==
    last.op = "toRange"
      => LET q == quantizerOf(last.axis)
         IN  /\ last.pixels = FracMul(last.v, Whole(PixelsPerStep(last.axis)))
             /\ Abs(last.back * last.v.den - last.v.num) <= q.stepSize * last.v.den
             /\ last.v.den = 1
                  => /\ last.back = last.v.num
                     /\ last.pixels = Whole(toDomain(q, last.v.num))
             /\ (last.axis = "scaleDegrees" /\ last.v = Whole(3))
                  => (last.pixels = Whole(60) /\ last.back = 3)

\* 3 scale degrees were mapped to 60 pixels and back
C13_Witness ==
    /\ last.op = "toRange" /\ last.axis = "scaleDegrees"
    /\ last.v = Whole(3) /\ last.pixels = Whole(60) /\ last.back = 3

-----------------------------------------------------------------------------
(* Properties of the controller's registry, under SpecController *)

NamesUnique(registry) ==
    \A i \in 1..Len(registry), j \in 1..Len(registry) :
        registry[i].name = registry[j].name => i = j

\* C14: addBehavior fails with a configuration error when the name is already
\* registered and leaves the registry unchanged, and registers the behaviour
\* otherwise, so the names of a controller are unique after any sequence of calls;
\* the six registrations of the editor's factory all succeed.
C14_DuplicateNameRejected ==
    /\ NamesUnique(controller.registry)
    /\ last.op = "addBehavior"
         => IF isRegistered(last.before, last.name)
            THEN /\ controller.error = ConfigurationError
                 /\ controller.registry = last.before
            ELSE /\ controller.error = NoError
                 /\ controller.registry
                      = Append(last.before, [name |-> last.name, priority |-> last.priority])
    /\ last.op = "factory"
         => /\ controller.error = NoError
            /\ [i \in 1..Len(controller.registry) |-> controller.registry[i].name]
                 = << "dragPan", "wheelZoom", "wheelScroll", "dragEvent", "selection",
                      "tooltip" >>

\* a second registration of a name has just failed on the controller of the factory
C14_Witness ==
    /\ last.op = "addBehavior" /\ last.name = "tooltip"
    /\ Len(last.before) = 6
    /\ controller.error = ConfigurationError
    /\ controller.registry = last.before

-----------------------------------------------------------------------------
(* Properties of the viewport's conversions, under SpecHitTest *)

\* the world position and size the render effect hands to the viewport for an event
worldPosition(ev) ==
    Vector2(toDomain(quantizerX, ev.start), toDomain(quantizerY, ev.degree))

worldSize(ev) == Vector2(toDomain(quantizerX, ev.duration), toDomain(quantizerY, 1))

WholeVector(p) == Vector2(Whole(p.x), Whole(p.y))

-----------------------------------------------------------------------------
(* The disabled select-box behaviour, under SpecSelectBox *)

PointerEvents == {"mousedown", "mousemove", "mouseup", "mouseout"}

\* C16: while the select-box behaviour is disabled, a pointer event (mouse-down,
\* mouse-move, mouse-up, mouse-out) leaves selecting, the anchor, the end point and
\* the visible box unchanged and calls neither the box renderer nor onSelectRect,
\* whatever state the behaviour was disabled in.
C16_DisabledIgnoresPointerEvents ==
    [][(~selectBox.enabled /\ last'.op \in PointerEvents)
         => /\ selectBox' = selectBox
            /\ selectionBox' = selectionBox
            /\ last'.calls = << >>]_vars

-----------------------------------------------------------------------------
(* Properties of the hit-test list, under SpecRender *)

\* the list holds one entry per event, in the order of the events, each with the
\* event and the screen rectangle of its start, degree and duration
ListMatches(rects, evs, vs) ==
    /\ Len(rects) = Len(evs)
    /\ \A i \in 1..Len(evs) :
          /\ rects[i].object = evs[i]
          /\ rects[i].rect.position.x
               = (QUARTER_NOTE_WIDTH * evs[i].start - vs.offset.x) * vs.zoom.x
          /\ rects[i].rect.position.y
               = (TIMELINE_ROW_HEIGHT * evs[i].degree - vs.offset.y) * vs.zoom.y
          /\ rects[i].rect.size.x = QUARTER_NOTE_WIDTH * evs[i].duration * vs.zoom.x
          /\ rects[i].rect.size.y = TIMELINE_ROW_HEIGHT * vs.zoom.y

\* C17: the hit-test list changes only in the render step; after each render it
\* holds exactly one entry per event, in the order of the events list, each with the
\* event's current screen rectangle; the steps that run onSelectRect, getEventAtPos
\* and onDragMove leave it as it is.
C17_ListRebuiltOnlyByRender ==
    [][/\ renderedRects' # renderedRects => last'.op = "render"
       /\ last'.op = "render" => ListMatches(renderedRects', events', viewportState')
       /\ last'.op \in PointerEvents => renderedRects' = renderedRects]_vars

\* a render has rebuilt the list after a drag moved an event
C17_Witness ==
    /\ last.op = "render"
    /\ events # initialEvents
    /\ \E i \in 1..Len(events) : renderedRects[i].object # initialEvents[i]
    /\ ListMatches(renderedRects, events, viewportState)

-----------------------------------------------------------------------------
(* The frame of onDragMove, under Spec *)

\* the ids of the events of a drag's snapshot
draggedIds(drag) == {drag.draggedEvents[k].id : k \in 1..Len(drag.draggedEvents)}

\* C18: a drag-move callback changes only the start and the degree of the events
\* whose id is among the dragged events: every other event is unchanged, and the
\* id and the duration of every event, the number of events and their order are
\* preserved, over any sequence of drag moves.
C18_DragMovesOnlyDragged ==
    [][/\ Len(events') = Len(events)
       /\ \A i \in 1..Len(events) :
             /\ events'[i].id = events[i].id
             /\ events'[i].duration = events[i].duration
             /\ DOMAIN events'[i] = DOMAIN events[i]
             /\ events'[i] # events[i]
                  => /\ last'.op = "mousemove"
                     /\ dragEvent.dragging
                     /\ events[i].id \in draggedIds(dragEvent)]_vars

\* a drag of some of the events has moved one of them
C18_Witness ==
    /\ last.op = "mousemove" /\ dragEvent.dragging /\ dragEvent.moves > 0
    /\ Len(dragEvent.draggedEvents) \in 1..(Len(events) - 1)
    /\ \E k \in 1..Len(dragEvent.draggedEvents) :
          liveEvent(dragEvent.draggedEvents[k].id) # dragEvent.draggedEvents[k]
    /\ \A i \in 1..Len(events) :
          events[i].id \notin draggedIds(dragEvent) => events[i] = initialEvents[i]

-----------------------------------------------------------------------------
(* Properties of the events' numbers, under SpecDrag *)

IsWhole(f) == f.den = 1

\* C19: starting from the initial events, after any sequence of drag gestures at
\* any zoom every event's start and degree are whole numbers (whole quarter notes
\* and whole scale degrees): each applied delta is rounded to a multiple of
\* stepSize 1 before it is added to the snapshot.
C19_StartAndDegreeStayWhole ==
    \A i \in 1..Len(events) : IsWhole(events[i].start) /\ IsWhole(events[i].degree)

\* at a zoom that is not whole a drag by a world delta that is not whole has moved
\* an event
C19_Witness ==
    /\ dragEvent.dragging /\ last.op = "mousemove"
    /\ ~IsWhole(viewportState.zoom.x)
    /\ ~IsWhole(FracDiv(FracDiv(Whole(dragEvent.to.x - dragEvent.from.x),
                                viewportState.zoom.x), Whole(QUARTER_NOTE_WIDTH)))
    /\ events # asNumbers(initialEvents)
    /\ \A i \in 1..Len(events) : IsWhole(events[i].start) /\ IsWhole(events[i].degree)

-----------------------------------------------------------------------------
(* Properties of getExtents, under SpecExtents *)

\* m is the least (with lo = TRUE) or the greatest element of the set of numbers S
IsBound(m, S, lo) ==
    /\ m \in S
    /\ \A n \in S : IF lo THEN m <= n ELSE m >= n

\* C20: for a non-empty event list getExtents gives start = the least start, end =
\* the greatest start + duration, size = end - start >= 0, minDegree = the least of
\* 0 and the degrees, maxDegree = the greatest of 6 and the degrees, so that every
\* event lies within the extents, after any sequence of drags; for the empty list
\* it gives start = end = size = 0 and the degrees 0..6.
C20_ExtentsCoverEveryEvent ==
    last.op = "getExtents"
      => LET e == last.extents
             idx == 1..Len(events)
         IN  IF events = << >>
             THEN e = [start |-> 0, end |-> 0, size |-> 0, minDegree |-> 0, maxDegree |-> 6]
             ELSE /\ IsBound(e.start, {events[i].start : i \in idx}, TRUE)
                  /\ IsBound(e.end, {events[i].start + events[i].duration : i \in idx},
                             FALSE)
                  /\ e.size = e.end - e.start /\ e.size >= 0
                  /\ IsBound(e.minDegree, {0} \cup {events[i].degree : i \in idx}, TRUE)
                  /\ IsBound(e.maxDegree, {6} \cup {events[i].degree : i \in idx}, FALSE)
                  /\ \A i \in idx :
                        /\ e.minDegree <= events[i].degree
                        /\ events[i].degree <= e.maxDegree
                        /\ e.start <= events[i].start
                        /\ events[i].start + events[i].duration <= e.end

\* the extents of two events, one dragged above row 0 and one below row 6, the
\* earlier of which ends last
C20_Witness ==
    /\ last.op = "getExtents" /\ Len(events) = 2
    /\ last.extents.minDegree = -MaxUp /\ last.extents.maxDegree = 7
    /\ last.extents.start = events[1].start
    /\ last.extents.end = events[1].start + events[1].duration
    /\ events[2].start > events[1].start

====
